---- MODULE Spec2Model ----
(***************************************************************************)
(* Model of server.py: the request router of the asset server, its path   *)
(* confinement resolver (safe_resolve), its directory lister (list_files)  *)
(* and its response emitters, over a small filesystem.                     *)
(*                                                                         *)
(* Strings are sequences of one-character strings, so that split,          *)
(* startswith, endswith, slicing, path parsing, sorting and JSON           *)
(* serialisation are computed rather than assumed.  A filesystem path is   *)
(* a sequence of segments (each a string), rooted at "/".                  *)
(***************************************************************************)
EXTENDS Integers, Sequences, FiniteSets, TLC

VARIABLES fs, pc, self_path, route, resp

vars == <<fs, pc, self_path, route, resp>>

(***************************************************************************)
(* Strings                                                                 *)
(***************************************************************************)

\* The characters that occur in the model, in ascending byte order.
Alphabet ==
    <<"-", ".", "/", "1", "=", "?", "_",
      "a", "b", "c", "d", "e", "f", "g", "h", "i", "j", "k", "l", "m",
      "n", "o", "p", "q", "r", "s", "t", "u", "v", "w", "x", "y", "z">>

Ord(c) == CHOOSE i \in 1..Len(Alphabet) : Alphabet[i] = c

\* str.startswith
StartsWith(s, p) == Len(p) <= Len(s) /\ SubSeq(s, 1, Len(p)) = p

\* str.endswith
EndsWith(s, e) == Len(e) <= Len(s) /\ SubSeq(s, Len(s) - Len(e) + 1, Len(s)) = e

\* s[n:]
DropPrefix(s, n) == SubSeq(s, n + 1, Len(s))

\* s.split(sep)[0] for a one-character separator
SplitFirst(s, sep) ==
    IF \E i \in 1..Len(s) : s[i] = sep
    THEN SubSeq(s, 1, (CHOOSE i \in 1..Len(s) :
                          s[i] = sep /\ \A j \in 1..(i - 1) : s[j] # sep) - 1)
    ELSE s

\* Python's ordering of str: by code point, a proper prefix first.
StrLess(a, b) ==
    \E k \in 0..Len(a) :
        /\ k <= Len(b)
        /\ \A i \in 1..k : a[i] = b[i]
        /\ \/ k = Len(a) /\ k < Len(b)
           \/ k < Len(a) /\ k < Len(b) /\ Ord(a[k + 1]) < Ord(b[k + 1])

RECURSIVE sorted(_)
\* sorted(iterable of str): selection of the least remaining element.
sorted(S) ==
    IF S = {} THEN <<>>
    ELSE LET m == CHOOSE x \in S : \A y \in S \ {x} : StrLess(x, y)
         IN  <<m>> \o sorted(S \ {m})

RECURSIVE JsonItems(_)
JsonItems(data) ==
    IF data = <<>> THEN <<>>
    ELSE <<"\"">> \o Head(data) \o <<"\"">>
         \o (IF Tail(data) = <<>> THEN <<>> ELSE <<",", " ">> \o JsonItems(Tail(data)))

\* json.dumps of a list of plain strings: ["a", "b"]
JsonDumps(data) == <<"[">> \o JsonItems(data) \o <<"]">>

(***************************************************************************)
(* Names                                                                   *)
(***************************************************************************)
n_srv       == <<"s", "r", "v">>
n_game_data == <<"g", "a", "m", "e", "_", "d", "a", "t", "a">>
n_manifests == <<"m", "a", "n", "i", "f", "e", "s", "t", "s">>
n_hlod      == <<"h", "l", "o", "d">>
n_terrain   == <<"t", "e", "r", "r", "a", "i", "n">>
n_hlod_all  == <<"h", "l", "o", "d", "_", "a", "l", "l">>
n_textures  == <<"t", "e", "x", "t", "u", "r", "e", "s">>
n_android   == <<"a", "n", "d", "r", "o", "i", "d", "_", "m", "a", "n", "i", "f", "e", "s", "t",
                 ".", "j", "s", "o", "n">>
n_all_hlod  == <<"a", "l", "l", "_", "h", "l", "o", "d", "_", "m", "a", "n", "i", "f", "e", "s", "t",
                 ".", "j", "s", "o", "n">>
n_ocean_obj == <<"o", "c", "e", "a", "n", ".", "o", "b", "j">>
n_ocean_glb == <<"o", "c", "e", "a", "n", ".", "g", "l", "b">>
n_skybox    == <<"s", "k", "y", "b", "o", "x", ".", "p", "n", "g">>
n_overrides == <<"o", "v", "e", "r", "r", "i", "d", "e", "s", ".", "j", "s", "o", "n">>
n_secret    == <<"s", "e", "c", "r", "e", "t", ".", "o", "b", "j">>
n_a_obj     == <<"a", ".", "o", "b", "j">>
n_b_obj     == <<"b", ".", "o", "b", "j">>
n_c_txt     == <<"c", ".", "t", "x", "t">>
n_d_obj     == <<"d", ".", "o", "b", "j">>
n_x_obj     == <<"x", ".", "o", "b", "j">>
n_t_png     == <<"t", ".", "p", "n", "g">>
n_sub       == <<"s", "u", "b">>
n_lnk       == <<"l", "n", "k">>
n_gone      == <<"g", "o", "n", "e">>
n_index     == <<"i", "n", "d", "e", "x", ".", "h", "t", "m", "l">>

e_obj == <<".", "o", "b", "j">>
e_png == <<".", "p", "n", "g">>

DotDot == <<".", ".">>
Dot    == <<".">>

(***************************************************************************)
(* Route table                                                             *)
(***************************************************************************)
BASE == <<n_srv>>
GAME == BASE \o <<n_game_data>>

\* Insertion order of the ASSET_ROUTES dict, which the dispatcher iterates.
AssetNames == <<n_hlod, n_terrain, n_hlod_all, n_textures>>

ASSET_ROUTES ==
    [i \in 1..Len(AssetNames) |->
        CASE i = 1 -> [directory |-> GAME \o <<n_hlod>>,     ext |-> e_obj, ctype |-> "model/obj"]
          [] i = 2 -> [directory |-> GAME \o <<n_terrain>>,  ext |-> e_obj, ctype |-> "model/obj"]
          [] i = 3 -> [directory |-> GAME \o <<n_hlod_all>>, ext |-> e_obj, ctype |-> "model/obj"]
          [] i = 4 -> [directory |-> GAME \o <<n_textures>>, ext |-> e_png, ctype |-> "image/png"]]

SingleKeys ==
    << <<"/">> \o <<"m", "a", "n", "i", "f", "e", "s", "t">>,
       <<"/">> \o <<"a", "l", "l", "_", "h", "l", "o", "d", "_", "m", "a", "n", "i", "f", "e", "s", "t">>,
       <<"/">> \o n_ocean_obj,
       <<"/">> \o n_ocean_glb,
       <<"/">> \o n_skybox,
       <<"/">> \o n_overrides >>

SINGLE_FILE_ROUTES ==
    [i \in 1..Len(SingleKeys) |->
        CASE i = 1 -> [fpath |-> BASE \o <<n_manifests, n_android>>,  ctype |-> "application/json"]
          [] i = 2 -> [fpath |-> BASE \o <<n_manifests, n_all_hlod>>, ctype |-> "application/json"]
          [] i = 3 -> [fpath |-> BASE \o <<n_ocean_obj>>, ctype |-> "model/obj"]
          [] i = 4 -> [fpath |-> BASE \o <<n_ocean_glb>>, ctype |-> "model/gltf-binary"]
          [] i = 5 -> [fpath |-> BASE \o <<n_skybox>>,    ctype |-> "image/png"]
          [] i = 6 -> [fpath |-> BASE \o <<n_overrides>>, ctype |-> "application/json"]]

(***************************************************************************)
(* Filesystem                                                              *)
(*                                                                         *)
(* fs maps each path of Nodes to what is stored there.  A node is seen     *)
(* only while every ancestor is a directory, so switching a directory to   *)
(* "absent" models renaming it away with its content.                      *)
(***************************************************************************)
Absent     == [kind |-> "absent", target |-> <<>>]
File       == [kind |-> "file",   target |-> <<>>]
Dir        == [kind |-> "dir",    target |-> <<>>]
Link(t)    == [kind |-> "link",   target |-> t]

HLOD     == GAME \o <<n_hlod>>
TERRAIN  == GAME \o <<n_terrain>>
HLOD_ALL == GAME \o <<n_hlod_all>>
TEXTURES == GAME \o <<n_textures>>
MANIFEST == BASE \o <<n_manifests, n_android>>

\* Directories and files that stay as they are.
FixedDirs  == {BASE, BASE \o <<n_manifests>>, GAME, HLOD, HLOD \o <<n_sub>>, HLOD_ALL}
FixedFiles == {BASE \o <<n_secret>>, BASE \o <<n_index>>, HLOD \o <<n_b_obj>>, HLOD \o <<n_c_txt>>,
               HLOD \o <<n_sub, n_d_obj>>, HLOD_ALL \o <<n_x_obj>>, TEXTURES \o <<n_t_png>>}
\* Files that are created and deleted while the server runs.
ToggleFiles == {HLOD \o <<n_a_obj>>, MANIFEST}
\* A directory that is renamed away and back while the server runs.
ToggleDirs  == {TEXTURES}
\* Places where a symbolic link may have been installed before startup.
LNK == HLOD \o <<n_lnk>>
LinkChoices ==
    { [at |-> LNK,     to |-> BASE],
      [at |-> LNK,     to |-> HLOD \o <<n_sub>>],
      [at |-> LNK,     to |-> HLOD \o <<n_gone>>],
      [at |-> TERRAIN, to |-> HLOD] }

Nodes == FixedDirs \cup FixedFiles \cup ToggleFiles \cup ToggleDirs \cup {LNK, TERRAIN}

\* os.lstat: the node at a canonical path, not following a final link.
lstat(p) ==
    IF p = <<>> THEN Dir
    ELSE IF p \in Nodes /\ \A k \in 1..(Len(p) - 1) : fs[SubSeq(p, 1, k)].kind = "dir"
    THEN fs[p]
    ELSE Absent

(***************************************************************************)
(* pathlib                                                                 *)
(***************************************************************************)
NUL == "NUL"

RECURSIVE SplitSlash(_)
SplitSlash(s) ==
    IF \E i \in 1..Len(s) : s[i] = "/"
    THEN LET i == CHOOSE i \in 1..Len(s) : s[i] = "/" /\ \A j \in 1..(i - 1) : s[j] # "/"
         IN  <<SubSeq(s, 1, i - 1)>> \o SplitSlash(SubSeq(s, i + 1, Len(s)))
    ELSE <<s>>

\* The parts of a parsed path string: empty and "." segments are dropped,
\* ".." segments are kept.
Parts(s) == SelectSeq(SplitSlash(s), LAMBDA x : x # <<>> /\ x # Dot)

IsAbs(s) == s # <<>> /\ s[1] = "/"

\* directory / filename: an absolute right operand replaces the left one.
JoinPath(directory, filename) ==
    IF IsAbs(filename) THEN Parts(filename) ELSE directory \o Parts(filename)

RECURSIVE JoinRealPath(_, _, _)
\* Path.resolve(strict=False): walk the parts, pop on "..", follow links,
\* keep parts that do not exist.
JoinRealPath(cur, rest, seen) ==
    IF rest = <<>> THEN cur
    ELSE LET name    == Head(rest)
             newpath == cur \o <<name>>
         IN  IF name = DotDot
             THEN JoinRealPath(IF cur = <<>> THEN <<>> ELSE SubSeq(cur, 1, Len(cur) - 1),
                               Tail(rest), seen)
             ELSE IF lstat(newpath).kind = "link" /\ newpath \notin seen
             THEN JoinRealPath(JoinRealPath(<<>>, lstat(newpath).target, seen \cup {newpath}),
                               Tail(rest), seen)
             ELSE JoinRealPath(newpath, Tail(rest), seen)

Resolve(p) == JoinRealPath(<<>>, p, {})

\* PurePath.is_relative_to: whole leading segments.
IsRelativeTo(p, root) == Len(root) <= Len(p) /\ SubSeq(p, 1, Len(root)) = root

\* os.stat: follows links.
stat(p) == LET st == lstat(Resolve(p)) IN IF st.kind = "link" THEN Absent ELSE st

exists(p) == stat(p).kind # "absent"

\* os.listdir of a directory: the names of its visible children.
listdir(p) ==
    LET d == Resolve(p)
    IN  {n[Len(n)] : n \in {q \in Nodes : Len(q) = Len(d) + 1 /\ IsRelativeTo(q, d)
                                          /\ lstat(q).kind # "absent"}}

\* The bytes of a file; each file holds its own canonical path name.
RECURSIVE PathStr(_)
PathStr(p) == IF p = <<>> THEN <<>> ELSE <<"/">> \o Head(p) \o PathStr(Tail(p))

read_bytes(p) == PathStr(Resolve(p))

(***************************************************************************)
(* safe_resolve and list_files                                             *)
(***************************************************************************)
None == [ok |-> FALSE, path |-> <<>>]
Some(p) == [ok |-> TRUE, path |-> p]

\* An embedded null byte makes resolve() raise ValueError.
RaisesValueError(filename) == \E i \in 1..Len(filename) : filename[i] = NUL

\* safe_resolve with str(resolved).startswith(str(root)) as the test.
safe_resolve_prefix(directory, filename) ==
    IF RaisesValueError(filename) THEN None
    ELSE LET resolved == Resolve(JoinPath(directory, filename))
         IN  IF StartsWith(PathStr(resolved), PathStr(Resolve(directory)))
             THEN Some(resolved) ELSE None

\* safe_resolve testing against the root as declared, not canonicalised.
safe_resolve_nocanon(directory, filename) ==
    IF RaisesValueError(filename) THEN None
    ELSE LET resolved == Resolve(JoinPath(directory, filename))
         IN  IF IsRelativeTo(resolved, directory) THEN Some(resolved) ELSE None

\* safe_resolve with resolve(strict=True): a missing path raises OSError.
safe_resolve_strict(directory, filename) ==
    IF RaisesValueError(filename) THEN None
    ELSE LET resolved == Resolve(JoinPath(directory, filename))
         IN  IF lstat(resolved).kind # "absent" /\ IsRelativeTo(resolved, Resolve(directory))
             THEN Some(resolved) ELSE None

safe_resolve(directory, filename) ==
    IF RaisesValueError(filename) THEN None
    ELSE LET resolved == Resolve(JoinPath(directory, filename))
         IN  IF IsRelativeTo(resolved, Resolve(directory)) THEN Some(resolved) ELSE None

\* Line 41: sorted(f for f in os.listdir(directory) if f.endswith(ext)); the
\* outcome is a list, or the OSError os.listdir raises when the path is not
\* a directory that can be listed.
\* The listing computed once at startup and served from then on.
list_files_listing_cached(directory, ext) ==
    [raised |-> FALSE,
     value |-> IF directory = HLOD THEN <<n_a_obj, n_b_obj>>
               ELSE IF directory = TEXTURES THEN <<n_t_png>> ELSE <<>>]

list_files_listing(directory, ext) ==
    IF stat(directory).kind # "dir" THEN [raised |-> TRUE, value |-> <<>>]
    ELSE [raised |-> FALSE, value |-> sorted({f \in listdir(directory) : EndsWith(f, ext)})]

(***************************************************************************)
(* Requests                                                                *)
(***************************************************************************)
Sl == <<"/">>
ListPrefix == <<"/", "l", "i", "s", "t", "_">>
Query == <<"?", "v", "=", "1">>

r_manifest       == SingleKeys[1]
r_manifest_query == SingleKeys[1] \o Query
r_ocean          == SingleKeys[3]
r_list_hlod      == ListPrefix \o n_hlod
r_list_textures  == ListPrefix \o n_textures
r_list_unknown   == ListPrefix \o n_sub
r_list_slash     == ListPrefix \o n_hlod \o Sl
r_hlod_a         == Sl \o n_hlod \o Sl \o n_a_obj
r_hlod_root      == Sl \o n_hlod \o Sl
r_hlod_escape    == Sl \o n_hlod \o Sl \o DotDot \o Sl \o DotDot \o Sl \o n_secret
r_hlod_sibling   == Sl \o n_hlod \o Sl \o DotDot \o Sl \o n_hlod_all \o Sl \o n_x_obj
r_hlod_absolute  == Sl \o n_hlod \o Sl \o Sl \o n_srv \o Sl \o n_secret
r_hlod_lnk_secret == Sl \o n_hlod \o Sl \o n_lnk \o Sl \o n_secret
r_hlod_lnk_d     == Sl \o n_hlod \o Sl \o n_lnk \o Sl \o n_d_obj
r_hlod_sub_up    == Sl \o n_hlod \o Sl \o n_sub \o Sl \o DotDot \o Sl \o n_a_obj
r_hlod_nul       == Sl \o n_hlod \o Sl \o n_a_obj \o <<NUL>>
r_terrain_a      == Sl \o n_terrain \o Sl \o n_a_obj
r_hlod_all_x     == Sl \o n_hlod_all \o Sl \o n_x_obj
r_textures_t     == Sl \o n_textures \o Sl \o n_t_png
r_root           == Sl
r_secret         == Sl \o n_secret

Requests ==
    { r_manifest, r_manifest_query, r_ocean, r_list_hlod, r_list_textures, r_list_unknown,
      r_list_slash, r_hlod_a, r_hlod_root, r_hlod_escape, r_hlod_sibling, r_hlod_absolute,
      r_hlod_lnk_secret, r_hlod_lnk_d, r_hlod_sub_up, r_hlod_nul, r_terrain_a, r_hlod_all_x,
      r_textures_t, r_root, r_secret }

(***************************************************************************)
(* Handler.do_GET: classification                                          *)
(***************************************************************************)
NoRoute ==
    [rule |-> "none", directory |-> <<>>, filename |-> <<>>, fpath |-> <<>>,
     ctype |-> "", ext |-> <<>>]

\* The first asset route, in dict order, whose "/<name>/" prefix the path has.
AssetPrefix(i) == Sl \o AssetNames[i] \o Sl

FirstAsset(path) ==
    CHOOSE i \in 1..Len(AssetNames) :
        /\ StartsWith(path, AssetPrefix(i))
        /\ \A j \in 1..(i - 1) : ~StartsWith(path, AssetPrefix(j))

ClassifyPath(path) ==
    IF \E i \in 1..Len(SingleKeys) : SingleKeys[i] = path
    THEN LET i == CHOOSE i \in 1..Len(SingleKeys) : SingleKeys[i] = path
         IN  [NoRoute EXCEPT !.rule = "singleton",
                             !.fpath = SINGLE_FILE_ROUTES[i].fpath,
                             !.ctype = SINGLE_FILE_ROUTES[i].ctype]
    ELSE IF /\ StartsWith(path, ListPrefix)
            /\ \E i \in 1..Len(AssetNames) : AssetNames[i] = DropPrefix(path, 6)
    THEN LET i == CHOOSE i \in 1..Len(AssetNames) : AssetNames[i] = DropPrefix(path, 6)
         IN  [NoRoute EXCEPT !.rule = "listing",
                             !.directory = ASSET_ROUTES[i].directory,
                             !.ext = ASSET_ROUTES[i].ext]
    ELSE IF \E i \in 1..Len(AssetNames) : StartsWith(path, AssetPrefix(i))
    THEN LET i == FirstAsset(path)
         IN  [NoRoute EXCEPT !.rule = "asset",
                             !.directory = ASSET_ROUTES[i].directory,
                             !.filename = DropPrefix(path, Len(AssetPrefix(i))),
                             !.ctype = ASSET_ROUTES[i].ctype]
    ELSE [NoRoute EXCEPT !.rule = "fallback"]

\* do_GET matching self.path with its query string still attached.
Classify_raw(raw) == ClassifyPath(raw)

\* do_GET answering "/list_<unknown>" from the listing rule, as the listing
\* of a directory of that name.
Classify_list_unknown(raw) ==
    LET path == SplitFirst(raw, "?")
    IN  IF StartsWith(path, ListPrefix) /\ ClassifyPath(path).rule = "fallback"
        THEN [NoRoute EXCEPT !.rule = "listing",
                             !.directory = GAME \o <<DropPrefix(path, 6)>>,
                             !.ext = e_obj]
        ELSE ClassifyPath(path)

\* do_GET up to the first call that touches the filesystem.
Classify(raw) == ClassifyPath(SplitFirst(raw, "?"))

\* self.path as the static handler sees it: "/" is rewritten.
FallbackPath(raw) ==
    IF SplitFirst(raw, "?") = Sl THEN Sl \o n_index ELSE raw

(***************************************************************************)
(* Responses                                                               *)
(***************************************************************************)
NoResp == [status |-> 0, headers |-> <<>>, body |-> <<>>, exc |-> ""]

\* Handler.end_headers: the CORS header is added to whatever was sent.
end_headers(headers) == Append(headers, <<"Access-Control-Allow-Origin", "*">>)

\* send_error writing its headers without going through end_headers.
send_error_plain(code) ==
    [status |-> code,
     headers |-> << <<"Connection", "close">>, <<"Content-Type", "text/html;charset=utf-8">> >>,
     body |-> <<>>, exc |-> ""]

\* BaseHTTPRequestHandler.send_error, which ends its headers through
\* self.end_headers().
send_error(code) ==
    [status |-> code,
     headers |-> end_headers(<< <<"Connection", "close">>,
                                <<"Content-Type", "text/html;charset=utf-8">> >>),
     body |-> <<>>, exc |-> ""]

_serve_json(data) ==
    LET body == JsonDumps(data)
    IN  [status |-> 200,
         headers |-> end_headers(<< <<"Content-Type", "application/json">>,
                                    <<"Content-Length", ToString(Len(body))>> >>),
         body |-> body, exc |-> ""]

\* _serve_file after the existence check: read_bytes and the 200 response, or
\* the OSError of read_bytes, which nothing catches: no response is sent.
_serve_file_read(path, ctype) ==
    IF stat(path).kind = "file"
    THEN LET data == read_bytes(path)
         IN  [status |-> 200,
              headers |-> end_headers(<< <<"Content-Type", ctype>>,
                                         <<"Content-Length", ToString(Len(data))>>,
                                         <<"Cache-Control", "public, max-age=3600">> >>),
              body |-> data, exc |-> ""]
    ELSE [NoResp EXCEPT !.exc = IF stat(path).kind = "dir" THEN "IsADirectoryError"
                                ELSE "FileNotFoundError"]

\* A request whose handler raised: socketserver closes the connection.
Raised(e) == [NoResp EXCEPT !.exc = e]

RECURSIVE DropDots(_)
DropDots(parts) ==
    IF parts = <<>> THEN <<>>
    ELSE IF Head(parts) = DotDot THEN DropDots(Tail(parts))
    ELSE <<Head(parts)>> \o DropDots(Tail(parts))

\* SimpleHTTPRequestHandler.do_GET over BASE: translate_path drops the query
\* and every "." and ".." part; a file is sent, a directory is redirected to
\* or listed, anything else is a 404.  Every branch ends its headers through
\* self.end_headers().
static_do_GET(path) ==
    LET clean  == SplitFirst(path, "?")
        target == BASE \o DropDots(Parts(clean))
    IN  CASE stat(target).kind = "file" ->
               [status |-> 200,
                headers |-> end_headers(<< <<"Content-type", "application/octet-stream">>,
                                           <<"Content-Length", ToString(Len(read_bytes(target)))>> >>),
                body |-> read_bytes(target), exc |-> ""]
          [] stat(target).kind = "dir" /\ ~EndsWith(clean, Sl) ->
               [status |-> 301,
                headers |-> end_headers(<< <<"Location", "/">>, <<"Content-Length", "0">> >>),
                body |-> <<>>, exc |-> ""]
          [] stat(target).kind = "dir" /\ EndsWith(clean, Sl) ->
               [status |-> 200,
                headers |-> end_headers(<< <<"Content-type", "text/html">> >>),
                body |-> <<>>, exc |-> ""]
          [] OTHER -> send_error(404)

(***************************************************************************)
(* State                                                                   *)
(***************************************************************************)
NumWorkers == 2
Workers == 1..NumWorkers
MainThread == 1

\* The requests the concurrent threads of SpecThreads draw from.
ThreadRequests == {r_list_hlod, r_list_textures, r_hlod_a, r_root}

InitFiles == {HLOD \o <<n_a_obj>>, MANIFEST}

\* At most one link per place.
LinkSets == {L \in SUBSET LinkChoices : \A x, y \in L : x.at = y.at => x = y}

InitFs(L) ==
    [p \in Nodes |->
        IF \E l \in L : l.at = p THEN Link((CHOOSE l \in L : l.at = p).to)
        ELSE IF p \in FixedDirs \cup ToggleDirs THEN Dir
        ELSE IF p \in FixedFiles \cup InitFiles THEN File
        ELSE Absent]

Init ==
    /\ \E L \in LinkSets : fs = InitFs(L)
    /\ pc = [w \in Workers |-> "idle"]
    /\ self_path = [w \in Workers |-> <<>>]
    /\ route = [w \in Workers |-> NoRoute]
    /\ resp = [w \in Workers |-> NoResp]

(***************************************************************************)
(* Actions                                                                 *)
(***************************************************************************)
Respond(w, r) ==
    /\ resp' = [resp EXCEPT ![w] = r]
    /\ pc' = [pc EXCEPT ![w] = "done"]

\* A worker thread takes a request and runs do_GET up to its first
\* filesystem call.
do_GET(w, raw) ==
    /\ pc[w] = "idle"
    /\ LET rt == Classify(raw)
       IN  /\ route' = [route EXCEPT ![w] = rt]
           /\ self_path' = [self_path EXCEPT ![w] =
                               IF rt.rule = "fallback" THEN FallbackPath(raw) ELSE raw]
           /\ pc' = [pc EXCEPT ![w] =
                        CASE rt.rule = "singleton" -> "exists"
                          [] rt.rule = "listing"   -> "list_exists"
                          [] rt.rule = "asset"     -> "safe_resolve"
                          [] OTHER                 -> "static"]
    /\ UNCHANGED <<fs, resp>>

\* Lines 68-71 with a rejected candidate handed on to the static fallback.
AssetResolve_fallthrough(w) ==
    /\ pc[w] = "safe_resolve"
    /\ LET resolved == safe_resolve(route[w].directory, route[w].filename)
       IN  IF resolved.ok
           THEN /\ route' = [route EXCEPT ![w].fpath = resolved.path]
                /\ pc' = [pc EXCEPT ![w] = "exists"]
           ELSE /\ pc' = [pc EXCEPT ![w] = "static"]
                /\ UNCHANGED route
    /\ UNCHANGED <<fs, self_path, resp>>

\* Lines 68-71.
AssetResolve(w) ==
    /\ pc[w] = "safe_resolve"
    /\ LET resolved == safe_resolve(route[w].directory, route[w].filename)
       IN  IF resolved.ok
           THEN /\ route' = [route EXCEPT ![w].fpath = resolved.path]
                /\ pc' = [pc EXCEPT ![w] = "exists"]
                /\ UNCHANGED resp
           ELSE /\ Respond(w, send_error(404))
                /\ UNCHANGED route
    /\ UNCHANGED <<fs, self_path>>

\* Lines 87-88.
ServeFileExists(w) ==
    /\ pc[w] = "exists"
    /\ IF ~exists(route[w].fpath)
       THEN Respond(w, send_error(404))
       ELSE /\ pc' = [pc EXCEPT ![w] = "read_bytes"]
            /\ UNCHANGED resp
    /\ UNCHANGED <<fs, self_path, route>>

\* Lines 89-95.
ServeFileRead(w) ==
    /\ pc[w] = "read_bytes"
    /\ Respond(w, _serve_file_read(route[w].fpath, route[w].ctype))
    /\ UNCHANGED <<fs, self_path, route>>

\* Lines 39-40, and _serve_json of the empty list.
ListFilesExists(w) ==
    /\ pc[w] = "list_exists"
    /\ IF ~exists(route[w].directory)
       THEN Respond(w, _serve_json(<<>>))
       ELSE /\ pc' = [pc EXCEPT ![w] = "listdir"]
            /\ UNCHANGED resp
    /\ UNCHANGED <<fs, self_path, route>>

\* Line 41, and _serve_json of its result.
ListFilesListdir(w) ==
    /\ pc[w] = "listdir"
    /\ LET r == list_files_listing(route[w].directory, route[w].ext)
       IN  Respond(w, IF r.raised THEN Raised("OSError") ELSE _serve_json(r.value))
    /\ UNCHANGED <<fs, self_path, route>>

\* Lines 73-76.
StaticFallback(w) ==
    /\ pc[w] = "static"
    /\ Respond(w, static_do_GET(self_path[w]))
    /\ UNCHANGED <<fs, self_path, route>>

\* The connection is closed and the handler object is dropped.
Finish(w) ==
    /\ pc[w] = "done"
    /\ pc' = [pc EXCEPT ![w] = "idle"]
    /\ self_path' = [self_path EXCEPT ![w] = <<>>]
    /\ route' = [route EXCEPT ![w] = NoRoute]
    /\ resp' = [resp EXCEPT ![w] = NoResp]
    /\ UNCHANGED fs

\* Another process creates or deletes an asset file.
FsToggleFile(p) ==
    /\ fs' = [fs EXCEPT ![p] = IF fs[p].kind = "file" THEN Absent ELSE File]
    /\ UNCHANGED <<pc, self_path, route, resp>>

\* Another process renames an asset directory away or back.
FsToggleDir(d) ==
    /\ fs' = [fs EXCEPT ![d] = IF fs[d].kind = "dir" THEN Absent ELSE Dir]
    /\ UNCHANGED <<pc, self_path, route, resp>>

HandlerStep(w, reqs) ==
    \/ \E raw \in reqs : do_GET(w, raw)
    \/ AssetResolve(w)
    \/ ServeFileExists(w)
    \/ ServeFileRead(w)
    \/ ListFilesExists(w)
    \/ ListFilesListdir(w)
    \/ StaticFallback(w)
    \/ Finish(w)

FsStep ==
    \/ \E p \in ToggleFiles : FsToggleFile(p)
    \/ \E d \in ToggleDirs : FsToggleDir(d)

\* One request at a time, any request of Requests, while the filesystem
\* changes under it.
Next ==
    \/ HandlerStep(MainThread, Requests)
    \/ FsStep

Spec == Init /\ [][Next]_vars

\* ThreadingMixIn: every worker thread handles its own request, the threads
\* and the filesystem changes interleaved step by step.
NextThreads ==
    \/ \E w \in Workers : HandlerStep(w, ThreadRequests)
    \/ FsStep

\* The threads are checked on a tree without symbolic links.
InitThreads ==
    /\ fs = InitFs({})
    /\ pc = [w \in Workers |-> "idle"]
    /\ self_path = [w \in Workers |-> <<>>]
    /\ route = [w \in Workers |-> NoRoute]
    /\ resp = [w \in Workers |-> NoResp]

SpecThreads == InitThreads /\ [][NextThreads]_vars

TypeOK ==
    /\ pc \in [Workers -> {"idle", "safe_resolve", "exists", "read_bytes", "list_exists",
                           "listdir", "static", "done"}]
    /\ \A w \in Workers : resp[w].status \in {0, 200, 301, 404}

(***************************************************************************)
(* Properties                                                              *)
(***************************************************************************)

\* p is root or lies below it by whole segments.
Under(p, root) ==
    \E k \in 0..Len(p) : k = Len(root) /\ \A i \in 1..k : p[i] = root[i]

Range(f) == {f[i] : i \in DOMAIN f}

StrippedPath(w) == SplitFirst(self_path[w], "?")

HasHeader(r, name, value) == \E i \in 1..Len(r.headers) : r.headers[i] = <<name, value>>

\* The files below a canonical root, as the bytes a read of them returns.
BytesUnder(root) == {PathStr(q) : q \in {n \in Nodes : Under(n, root)}}

\* The candidate of w: rejected by canonicalisation and the segment test.
Escapes(w) ==
    \/ RaisesValueError(route[w].filename)
    \/ ~Under(Resolve(JoinPath(route[w].directory, route[w].filename)),
              Resolve(route[w].directory))

\* The names a listing of directory d with filter ext has to show: the
\* visible direct children whose name ends with ext.
Matching(d, ext) ==
    {n \in {q[Len(q)] : q \in {x \in Nodes : Len(x) = Len(Resolve(d)) + 1}} :
        /\ lstat(Resolve(d) \o <<n>>).kind # "absent"
        /\ EndsWith(n, ext)}

\* S in ascending order, each name at the place its rank gives it.
Ascending(S) ==
    [i \in 1..Cardinality(S) |->
        CHOOSE x \in S : Cardinality({y \in S : StrLess(y, x)}) = i - 1]

----------------------------------------------------------------------------
\* C1: whenever safe_resolve returns a path for a route and a candidate, the
\* path is the canonical root or below it by whole segments, and every file
\* the asset rule serves is a file below the canonical root of its route.
C1_Confinement ==
    \A w \in Workers :
        route[w].rule = "asset" =>
            /\ pc[w] \in {"exists", "read_bytes"} =>
                   Under(route[w].fpath, Resolve(route[w].directory))
            /\ pc[w] = "done" /\ route[w].fpath # <<>> =>
                   Under(route[w].fpath, Resolve(route[w].directory))
            /\ pc[w] = "done" /\ resp[w].status = 200 =>
                   resp[w].body \in BytesUnder(Resolve(route[w].directory))

\* A candidate with ".." segments that stays inside the root was accepted
\* and its file served.
C1_Witness ==
    \E w \in Workers :
        /\ pc[w] = "done"
        /\ self_path[w] = r_hlod_sub_up
        /\ resp[w].status = 200
        /\ resp[w].body = PathStr(HLOD \o <<n_a_obj>>)

----------------------------------------------------------------------------
\* C2: the rule that handles a request is the first of singleton, listing,
\* asset prefix, fallback that matches the path without its query string; a
\* path equal to a singleton key is served from that singleton's file only.
C2_FirstMatchWins ==
    \A w \in Workers :
        pc[w] # "idle" =>
            LET path   == StrippedPath(w)
                single == path \in Range(SingleKeys)
                list   == StartsWith(path, ListPrefix)
                          /\ DropPrefix(path, 6) \in Range(AssetNames)
                asset  == \E i \in 1..Len(AssetNames) : StartsWith(path, AssetPrefix(i))
                rule   == IF single THEN "singleton"
                          ELSE IF list THEN "listing"
                          ELSE IF asset THEN "asset" ELSE "fallback"
            IN  /\ route[w].rule = rule
                /\ pc[w] \in CASE rule = "singleton" -> {"exists", "read_bytes", "done"}
                               [] rule = "listing"   -> {"list_exists", "listdir", "done"}
                               [] rule = "asset"     -> {"safe_resolve", "exists",
                                                         "read_bytes", "done"}
                               [] OTHER              -> {"static", "done"}
                /\ single =>
                    \E i \in 1..Len(SingleKeys) :
                        /\ SingleKeys[i] = path
                        /\ route[w].fpath = SINGLE_FILE_ROUTES[i].fpath
                        /\ pc[w] = "done" /\ resp[w].status = 200 =>
                               /\ resp[w].body = PathStr(SINGLE_FILE_ROUTES[i].fpath)
                               /\ HasHeader(resp[w], "Content-Type",
                                            SINGLE_FILE_ROUTES[i].ctype)

\* "/manifest?v=1" was served by the singleton rule.
C2_Witness ==
    \E w \in Workers :
        /\ pc[w] = "done"
        /\ self_path[w] = r_manifest_query
        /\ route[w].rule = "singleton"
        /\ resp[w].status = 200

----------------------------------------------------------------------------
\* C3: every request handled by the singleton, listing or asset rule is
\* answered, with 200 or, on any failure, with 404.
C3_FailuresAre404 ==
    \A w \in Workers :
        pc[w] = "done" /\ route[w].rule \in {"singleton", "listing", "asset"} =>
            /\ resp[w].exc = ""
            /\ resp[w].status \in {200, 404}

----------------------------------------------------------------------------
\* The request of w is in the hands of the one asset route whose prefix its
\* path has.
C4_Decided(w) ==
    \A i \in 1..Len(AssetNames) :
        pc[w] # "idle" /\ StartsWith(StrippedPath(w), AssetPrefix(i)) =>
            /\ route[w].rule = "asset"
            /\ route[w].directory = ASSET_ROUTES[i].directory
            /\ pc[w] \in {"safe_resolve", "exists", "read_bytes", "done"}
            /\ pc[w] = "done" /\ self_path[w] = r_hlod_escape =>
                   /\ resp[w].status = 404
                   /\ resp[w].body # PathStr(BASE \o <<n_secret>>)

\* A rejected candidate, or a file missing at the existence check, ends the
\* request of w with 404.
C4_Stops(w) ==
    /\ pc[w] = "safe_resolve" /\ pc'[w] # "safe_resolve" /\ Escapes(w) =>
           pc'[w] = "done" /\ resp'[w].status = 404
    /\ /\ pc[w] = "exists" /\ pc'[w] # "exists"
       /\ route[w].rule = "asset" /\ ~exists(route[w].fpath)
       => pc'[w] = "done" /\ resp'[w].status = 404

\* C4: a path that begins with "/<name>/" for an asset route is handled by
\* that route alone; a candidate the resolver rejects, or one that names no
\* existing file when the handler looks, ends the request with 404; and
\* "/hlod/../../secret.obj" is answered 404.
C4_AssetRouteDecides ==
    [][\A w \in Workers : C4_Stops(w) /\ C4_Decided(w)']_vars

\* "/hlod/../../secret.obj" was answered 404.
C4_Witness ==
    \E w \in Workers :
        /\ pc[w] = "done"
        /\ self_path[w] = r_hlod_escape
        /\ route[w].directory = HLOD
        /\ resp[w].status = 404

----------------------------------------------------------------------------
NoDotDot(filename) == \A i \in 1..Len(SplitSlash(filename)) : SplitSlash(filename)[i] # DotDot

\* The walk of the candidate's parts from the root meets a symbolic link
\* whose target lies outside the canonical root.
LinkLeaves(directory, filename) ==
    LET parts == Parts(filename)
    IN  \E k \in 1..Len(parts) :
            LET at == Resolve(directory \o SubSeq(parts, 1, k - 1)) \o <<parts[k]>>
            IN  /\ lstat(at).kind = "link"
                /\ ~Under(Resolve(lstat(at).target), Resolve(directory))

Resolved(w) ==
    /\ route[w].rule = "asset"
    /\ pc[w] \in {"exists", "read_bytes", "done"}

Succeeded(w) ==
    /\ route[w].fpath # <<>>
    /\ Under(route[w].fpath, Resolve(route[w].directory))

\* C5 as stated: every candidate without a ".." segment and without a
\* leading "/" is resolved to a path under the root.
C5_Original ==
    \A w \in Workers :
        /\ Resolved(w)
        /\ NoDotDot(route[w].filename)
        /\ ~IsAbs(route[w].filename)
        => Succeeded(w)

\* C5 as amended: every candidate without a ".." segment, without a leading
\* "/", without a null byte and whose walk meets no symbolic link that leads
\* out of the root is resolved to a path under the canonical root.
C5_Amended ==
    \A w \in Workers :
        /\ Resolved(w)
        /\ NoDotDot(route[w].filename)
        /\ ~IsAbs(route[w].filename)
        /\ ~RaisesValueError(route[w].filename)
        /\ ~LinkLeaves(route[w].directory, route[w].filename)
        => Succeeded(w)

\* A candidate that walks through a link staying inside the root, and one
\* under a root that is itself a link, were resolved.
C5_Witness ==
    \E w \in Workers :
        /\ pc[w] = "exists"
        /\ self_path[w] = r_terrain_a
        /\ lstat(TERRAIN).kind = "link"
        /\ route[w].fpath = HLOD \o <<n_a_obj>>

----------------------------------------------------------------------------
\* C6: a listing request never fails: its response is the JSON array of the
\* empty list or of extension-filtered child names in ascending order.
C6_ListFilesNeverFails ==
    \A w \in Workers :
        pc[w] = "done" /\ route[w].rule = "listing" =>
            /\ resp[w].exc = ""
            /\ resp[w].status = 200
            /\ \E S \in SUBSET {q[Len(q)] : q \in {n \in Nodes :
                                     Len(n) = Len(Resolve(route[w].directory)) + 1
                                     /\ Under(n, Resolve(route[w].directory))}} :
                   /\ \A n \in S : EndsWith(n, route[w].ext)
                   /\ resp[w].body = JsonDumps(Ascending(S))

----------------------------------------------------------------------------
\* The listing w sends is the directory's content at the step that reads it.
C7_Fresh(w) ==
    /\ pc[w] = "listdir" /\ pc'[w] = "done" /\ resp'[w].status = 200 =>
           resp'[w].body = JsonDumps(Ascending(Matching(route[w].directory, route[w].ext)))
    /\ pc[w] = "list_exists" /\ pc'[w] = "done" =>
           /\ ~exists(route[w].directory)
           /\ resp'[w].body = <<"[", "]">>

\* A step of w writes nothing but the state of w's own request.
C7_NoSharedWrites(w) ==
    pc'[w] # pc[w] =>
        /\ fs' = fs
        /\ \A v \in Workers \ {w} :
               /\ pc'[v] = pc[v]
               /\ self_path'[v] = self_path[v]
               /\ route'[v] = route[v]
               /\ resp'[v] = resp[v]

\* C7: the step that answers a listing request sends the names that match in
\* the route's directory at that step, in ascending order (or the empty list
\* when the directory is absent at the existence check), and no step of a
\* handler changes the filesystem or another thread's request state.
C7_ListingsNeverStale ==
    [][\A w \in Workers : C7_Fresh(w) /\ C7_NoSharedWrites(w)]_vars

\* Two "/list_hlod" requests, a.obj removed or added between their listdir
\* steps, hold different listings.
C7_Witness ==
    \E w, v \in Workers :
        /\ pc[w] = "done" /\ pc[v] = "done"
        /\ self_path[w] = r_list_hlod /\ self_path[v] = r_list_hlod
        /\ resp[w].body = JsonDumps(<<n_a_obj, n_b_obj>>)
        /\ resp[v].body = JsonDumps(<<n_b_obj>>)

----------------------------------------------------------------------------
\* C8: "/list_<name>" with an unknown name is not answered by the listing
\* rule (nor by the asset rule): it is handled by the static fallback.
C8_UnknownListFallsThrough ==
    \A w \in Workers :
        /\ pc[w] # "idle"
        /\ StartsWith(StrippedPath(w), ListPrefix)
        /\ DropPrefix(StrippedPath(w), 6) \notin Range(AssetNames)
        => /\ route[w].rule = "fallback"
           /\ pc[w] \in {"static", "done"}
           /\ route[w].directory = <<>>

\* "/list_sub" went to the static fallback, which answered 404.
C8_Witness ==
    \E w \in Workers :
        /\ pc[w] = "done"
        /\ self_path[w] = r_list_unknown
        /\ route[w].rule = "fallback"
        /\ resp[w].status = 404

----------------------------------------------------------------------------
\* C9: every response that is sent carries Access-Control-Allow-Origin: *.
C9_CorsOnEveryResponse ==
    \A w \in Workers :
        resp[w].status # 0 => HasHeader(resp[w], "Access-Control-Allow-Origin", "*")

\* A singleton whose file is missing was answered 404 with the header.
C9_Witness ==
    \E w \in Workers :
        /\ pc[w] = "done"
        /\ self_path[w] = r_ocean
        /\ resp[w].status = 404
        /\ HasHeader(resp[w], "Access-Control-Allow-Origin", "*")

----------------------------------------------------------------------------
\* The step of w is the call of safe_resolve.
ResolveStep(w) == pc[w] = "safe_resolve" /\ pc'[w] # "safe_resolve"

ReturnedNone(w) == pc'[w] = "done" /\ route'[w].fpath = <<>>

\* C10 as stated: a candidate that names nothing that exists (a missing
\* path, a broken link) makes safe_resolve return None.
C10_Original ==
    [][\A w \in Workers :
          ResolveStep(w) /\ ~exists(JoinPath(route[w].directory, route[w].filename))
              => ReturnedNone(w)]_vars

\* C10 as amended: safe_resolve returns None exactly when canonicalisation
\* raises ValueError or the canonical path is not under the canonical root;
\* a missing path or broken link whose canonical path is under the root is
\* returned as a path, and the existence check that follows answers 404.
C10_Amended ==
    [][\A w \in Workers :
          /\ ResolveStep(w) => (ReturnedNone(w) <=> Escapes(w))
          /\ ResolveStep(w) /\ ~Escapes(w) =>
                 /\ pc'[w] = "exists"
                 /\ route'[w].fpath = Resolve(JoinPath(route[w].directory, route[w].filename))
          /\ /\ pc[w] = "exists" /\ pc'[w] # "exists"
             /\ route[w].rule = "asset" /\ ~exists(route[w].fpath)
             => resp'[w].status = 404]_vars

\* safe_resolve returned a path for a file that does not exist.
C10_Witness ==
    \E w \in Workers :
        /\ pc[w] = "exists"
        /\ self_path[w] = r_hlod_a
        /\ route[w].fpath = HLOD \o <<n_a_obj>>
        /\ ~exists(route[w].fpath)

====
